---- MODULE Spec2Model ----
(***************************************************************************)
(* Retrieval orchestration and answer synthesis agent (RagAgent) of the    *)
(* chat backend, backend/src/services/rag/agent.py.                        *)
(*                                                                         *)
(* One run of RagAgent.run is a coroutine: every action below is the code  *)
(* between two awaits.  The chat-completion client, the vector search and  *)
(* the repositories are collaborators outside the source tree: a call to   *)
(* the chat client or to the vector search either raises or returns one of *)
(* the enumerated values; the repositories return.                         *)
(*                                                                         *)
(* Text is a sequence of one-character strings.  The Cyrillic letters of   *)
(* the source are written in Latin transliteration, one letter each        *)
(* (g d e = the search keyword at agent.py:240), capitals for capitals.    *)
(* None and the empty list of selected_document_ids behave alike in every  *)
(* place of the code (truthiness tests, `or []`) and are both <<>>.        *)
(***************************************************************************)
EXTENDS Integers, Sequences, FiniteSets, TLC

VARIABLES
    pc,               \* position of the run coroutine
    query,            \* run(query=...)
    chat_id,          \* run(chat_id=...), 0 for None
    stored,           \* message types stored for the chat, oldest first
    selected_ids,     \* run(selected_document_ids=...)
    history,          \* history loaded by run, roles oldest first
    resp,             \* the classification response run received
    decision,         \* ScenarioDecision of this run
    run_use_qe,       \* run_use_query_expansion
    docs,             \* documents loaded for the selected ids
    total_len,        \* their summed content length
    expansions,       \* expansion set of _search_with_expansion
    per_query,        \* per-variant retrieval limit
    results_by_query, \* result lists received so far, one per variant
    used_chunks,      \* AgentResult.used_chunks
    answer,           \* AgentResult.answer, by kind
    path,             \* branch of run that was entered
    calls,            \* collaborator calls issued so far, in order
    rule_guess,       \* rule guess of _choose_scenario
    top_k,            \* self._top_k
    refinements,      \* refinements returned by _expand_query
    subqueries,       \* subqueries returned by _expand_query
    qx_debug,         \* debug["query_expansion"] of the AgentResult
    scenario,         \* AgentResult.scenario and debug["scenario"]
    custom_value,     \* _resolve_instructions(custom_value)
    instructions,     \* what _resolve_instructions returned
    msg_limit,        \* self._messages_limit of the agent building a prompt
    prompt,            \* messages of the answer prompt, by role
    base_url,         \* CentralBankClient._base_url is set
    cache_ttl,        \* CentralBankClient._cache_ttl
    cache,            \* CentralBankClient._cache: cache key -> CachedValue
    now,              \* what _now_ts() returns
    tasks,            \* the fetch calls made so far, in order of their start
    writes            \* the cache keys stored so far, in order

inputs == <<query, chat_id, stored, selected_ids, top_k>>

\* state of the functions checked on their own
client == <<base_url, cache_ttl, cache, now, tasks, writes>>

unit == <<custom_value, instructions, msg_limit, prompt, client>>

vars == <<pc, inputs, unit, scenario, history, resp, decision, rule_guess, run_use_qe, docs,
          total_len, expansions, per_query, results_by_query, used_chunks,
          answer, path, calls, refinements, subqueries, qx_debug>>

(***************************************************************************)
(* Bounds of the model.                                                    *)
(***************************************************************************)
MaxHist == 1
MaxQuery == 3
MaxLists == 2
MaxLen == 2
MaxRefs == 1
MaxDeep == 5
MaxTies == 3
MaxText == 4
MaxTurns == 3
MaxFetches == 3
MaxTime == 2

(***************************************************************************)
(* Constructor defaults of RagAgent.                                       *)
(***************************************************************************)
messages_limit == 20
max_context_chars == 50000
default_top_k == 8
rrf_k == 60
use_query_expansion == TRUE

(***************************************************************************)
(* Sequences and text.                                                     *)
(***************************************************************************)
SeqsUpTo(S, n) == UNION {[1..m -> S] : m \in 0..n}

Last(s, n) == IF Len(s) <= n THEN s ELSE SubSeq(s, Len(s) - n + 1, Len(s))

First(s, n) == IF Len(s) <= n THEN s ELSE SubSeq(s, 1, n)

Max(a, b) == IF a >= b THEN a ELSE b

CeilDiv(a, b) == (a + b - 1) \div b

Capitals == <<"G", "D", "E", "I", "W", "Y", "S">>
Smalls == <<"g", "d", "e", "i", "w", "y", "s">>

LowerChar(c) ==
    IF \E i \in 1..Len(Capitals) : Capitals[i] = c
    THEN Smalls[CHOOSE i \in 1..Len(Capitals) : Capitals[i] = c]
    ELSE c

Lower(s) == [i \in 1..Len(s) |-> LowerChar(s[i])]

Contains(s, k) ==
    \E i \in 0..(Len(s) - Len(k)) : \A j \in 1..Len(k) : s[i + j] = k[j]

Whitespace == {" "}

IsBlank(s) == \A i \in 1..Len(s) : s[i] \in Whitespace

(***************************************************************************)
(* _rule_guess_scenario                                                    *)
(***************************************************************************)
search_keywords ==
    << <<"n", "a", "j", "t", "i">>,
       <<"n", "a", "j", "d", "i">>,
       <<"i", "w", "i">>,
       <<"p", "o", "i", "s", "k">>,
       <<"g", "d", "e">>,
       <<"k", "a", "k", "o", "j", " ", "d", "o", "g", "o", "v", "o", "r">>,
       <<"k", "a", "k", "o", "j", " ", "d", "o", "k", "u", "m", "e", "n", "t">>,
       <<"p", "o", "k", "a", "z", "i">>,
       <<"p", "o", "d", "b", "e", "r", "i">> >>

HasKeyword(q) ==
    \E n \in 1..Len(search_keywords) : Contains(Lower(q), search_keywords[n])

RuleGuessFirstMatch(q, h, sel) ==
    IF HasKeyword(q) THEN 1
    ELSE IF Len(sel) > 0 THEN 2
    ELSE IF Len(h) = 0 THEN 3
    ELSE 4

rule_guess_scenario(q, h, sel) ==
    IF Len(sel) > 0 THEN 2
    ELSE IF HasKeyword(q) THEN 1
    ELSE IF Len(h) = 0 THEN 3
    ELSE 4

(***************************************************************************)
(* Python floats.  A float x with 2^-7 <= x < 1 is a multiple of 2^-60 and *)
(* is written as the three base-2^20 digits <<h, m, l>> of x * 2^60, most  *)
(* significant first.  Every score _rrf_merge computes lies in that range  *)
(* as long as k + rank <= 128 and the sum stays below 1.  FRound is the    *)
(* rounding of IEEE 754 binary64: to 53 significant bits, to nearest, ties *)
(* to even.                                                                *)
(***************************************************************************)
Limb == 2 ^ 20

BitLen(x) == IF x = 0 THEN 0 ELSE CHOOSE n \in 1..21 : 2 ^ (n - 1) <= x /\ x < 2 ^ n

FBits(X) ==
    IF X[1] > 0 THEN 40 + BitLen(X[1])
    ELSE IF X[2] > 0 THEN 20 + BitLen(X[2])
    ELSE BitLen(X[3])

FCarry(h, m, l) ==
    << h + ((m + (l \div Limb)) \div Limb), (m + (l \div Limb)) % Limb, l % Limb >>

FRound(X, sticky) ==
    LET s == FBits(X) - 53
    IN  IF s <= 0 THEN X
        ELSE LET p == 2 ^ s
                 low == X[3] % p
                 half == p \div 2
                 odd == (X[3] \div p) % 2 = 1
                 up == low > half \/ (low = half /\ (sticky \/ odd))
             IN  FCarry(X[1], X[2], (X[3] - low) + (IF up THEN p ELSE 0))

FZero == <<0, 0, 0>>

\* x + y
FAdd(X, Y) == FRound(FCarry(X[1] + Y[1], X[2] + Y[2], X[3] + Y[3]), FALSE)

\* a / n for integers 0 < a < n <= 128: long division, then rounding
FDiv(a, n) ==
    LET c1 == (a % n) * Limb
        c2 == (c1 % n) * Limb
        c3 == (c2 % n) * Limb
    IN  FRound(<<c1 \div n, c2 \div n, c3 \div n>>, c3 % n /= 0)

FGt(X, Y) ==
    \/ X[1] > Y[1]
    \/ X[1] = Y[1] /\ X[2] > Y[2]
    \/ X[1] = Y[1] /\ X[2] = Y[2] /\ X[3] > Y[3]

FGe(X, Y) == X = Y \/ FGt(X, Y)

(***************************************************************************)
(* _rrf_merge.  A VectorSearchResult is [chunk_id, score, payload]; score  *)
(* is the raw similarity in hundredths.  fused_scores and                  *)
(* best_result_for_chunk are dicts: `order` is the insertion order of      *)
(* their keys, which is the order list(fused_scores.items()) has.          *)
(***************************************************************************)
RECURSIVE FlattenRunningIdx(_, _)
FlattenRunningIdx(lists, n) ==
    IF n = 0 THEN <<>>
    ELSE LET before == FlattenRunningIdx(lists, n - 1)
         IN  before \o [i \in 1..Len(lists[n]) |->
                            [res |-> lists[n][i], idx |-> Len(before) + i - 1]]

RECURSIVE Flatten(_, _)
\* every (list, position) of results_by_query in iteration order
Flatten(lists, n) ==
    IF n = 0 THEN <<>>
    ELSE Flatten(lists, n - 1) \o
         [i \in 1..Len(lists[n]) |-> [res |-> lists[n][i], idx |-> i - 1]]

RrfRankZeroBased(idx) == idx

RrfRank(idx) == idx + 1

RrfBetterAlways(seen, res, best) == TRUE

RrfBetterOrEqual(seen, res, best) == ~seen \/ res.score >= best.score

\* cid not in best_result_for_chunk or res.score > best_result_for_chunk[cid].score
RrfBetter(seen, res, best) == ~seen \/ res.score > best.score

RECURSIVE RrfAccumulate(_, _, _, _)
\* the loop of agent.py:380-390 from occurrence i on
RrfAccumulate(occ, i, k, acc) ==
    IF i > Len(occ) THEN acc
    ELSE LET res == occ[i].res
             cid == res.chunk_id
             seen == cid \in DOMAIN acc.fused_scores
             score_sum == IF seen THEN acc.fused_scores[cid] ELSE FZero
             rank == RrfRank(occ[i].idx)
             new_sum == FAdd(score_sum, FDiv(1, k + rank))
             best == IF seen THEN acc.best[cid] ELSE res
             keep == IF RrfBetter(seen, res, best) THEN res ELSE best
         IN  RrfAccumulate(occ, i + 1, k,
                 [order |-> IF seen THEN acc.order ELSE Append(acc.order, cid),
                  fused_scores |-> (cid :> new_sum) @@ acc.fused_scores,
                  best |-> (cid :> keep) @@ acc.best])

RrfEmpty == [order |-> <<>>, fused_scores |-> <<>>, best |-> <<>>]

RrfFused(lists, k) == RrfAccumulate(Flatten(lists, Len(lists)), 1, k, RrfEmpty)

SortsBeforeAscending(x, y) == FGe(x, y)

\* whether a later element x stays behind an earlier element y in
\* fused.sort(key=score, reverse=True): the sort is stable
SortsBefore(x, y) == FGe(y, x)

RECURSIVE InsertSorted(_, _, _)
InsertSorted(out, cid, score) ==
    IF out = <<>> THEN <<cid>>
    ELSE IF SortsBefore(score[cid], score[out[Len(out)]])
         THEN Append(out, cid)
         ELSE Append(InsertSorted(SubSeq(out, 1, Len(out) - 1), cid, score),
                     out[Len(out)])

RECURSIVE SortDesc(_, _, _)
\* the first n keys of order, sorted
SortDesc(order, n, score) ==
    IF n = 0 THEN <<>>
    ELSE InsertSorted(SortDesc(order, n - 1, score), order[n], score)

RrfTruncateNone(s, limit) == s

RrfTruncate(s, limit) == First(s, limit)

rrf_merge(lists, k, limit) ==
    LET acc == RrfFused(lists, k)
        top == RrfTruncate(SortDesc(acc.order, Len(acc.order), acc.fused_scores), limit)
    IN  [i \in 1..Len(top) |-> acc.best[top[i]]]

(***************************************************************************)
(* JSON values of a language-model response, as far as the code tells them *)
(* apart: a field is absent, a number, or something the conversion applied *)
(* to it raises on.  scenario is in tenths (27 is 2.7: int() truncates),   *)
(* confidence in hundredths; a list is known by its length, its items are  *)
(* 1..n in the model's order.                                              *)
(***************************************************************************)
JAbsent == [t |-> "absent", v |-> 0]
JNum(n) == [t |-> "num", v |-> n]
JList(n) == [t |-> "list", v |-> n]
JBad == [t |-> "bad", v |-> 0]

JNull == [t |-> "null", b |-> FALSE, s |-> <<>>]
JBool(b) == [t |-> "bool", b |-> b, s |-> <<>>]
JStr(s) == [t |-> "str", b |-> FALSE, s |-> s]

Unparsable ==
    [kind |-> "unparsable", scenario |-> JAbsent, confidence |-> JAbsent,
     clarifications |-> JAbsent, qe |-> JNull, reason |-> "", follow_up |-> FALSE]

Obj(sc, cf, cl, qe, rs, fu) ==
    [kind |-> "object", scenario |-> sc, confidence |-> cf,
     clarifications |-> cl, qe |-> qe, reason |-> rs, follow_up |-> fu]

NoResponse == Obj(JAbsent, JAbsent, JAbsent, JNull, "", FALSE)

(***************************************************************************)
(* _choose_scenario, from the response on (agent.py:200-227).              *)
(***************************************************************************)
IntOf(tenths) == tenths \div 10

AdoptsAbove(confidence) == confidence > 60

\* confidence >= 0.6
Adopts(confidence) == confidence >= 60

QeTrue == { <<"t", "r", "u", "e">>, <<"1">>, <<"y", "e", "s">> }

UseQeOf(qe) ==
    IF qe.t = "null" THEN "none"
    ELSE IF qe.t = "bool" THEN (IF qe.b THEN "true" ELSE "false")
    ELSE IF Lower(qe.s) \in QeTrue THEN "true" ELSE "false"

RuleFallback(rg) ==
    [scenario |-> rg, confidence |-> 0, reason |-> "rule fallback",
     follow_up |-> FALSE, clarifications |-> <<>>, use_query_expansion |-> "none"]

NoDecision == RuleFallback(0)

ParseRaisesLenient(r) ==
    \/ r.kind /= "object"
    \/ r.scenario.t = "bad"
    \/ r.confidence.t = "bad"

\* what the try block of agent.py:200-217 raises on
ParseRaises(r) ==
    \/ r.kind /= "object"
    \/ r.scenario.t = "bad"
    \/ r.confidence.t = "bad"
    \/ r.clarifications.t = "bad"

ClarificationsAll(n) == [i \in 1..n |-> i]

\* [str(item) for item in parsed.get("clarifications", [])][:3]
Clarifications(n) == First([i \in 1..n |-> i], 3)

choose_scenario(q, h, sel, r) ==
    LET rg == rule_guess_scenario(q, h, sel)
    IN  IF ParseRaises(r) THEN RuleFallback(rg)
        ELSE LET llm_scenario == IF r.scenario.t = "absent" THEN 3 ELSE IntOf(r.scenario.v)
                 confidence == IF r.confidence.t = "absent" THEN 50 ELSE r.confidence.v
                 n == IF r.clarifications.t = "absent" THEN 0 ELSE r.clarifications.v
             IN  [scenario |-> IF Adopts(confidence) THEN llm_scenario ELSE rg,
                  confidence |-> confidence,
                  reason |-> r.reason,
                  follow_up |-> r.follow_up,
                  clarifications |-> Clarifications(n),
                  use_query_expansion |-> UseQeOf(r.qe)]

(***************************************************************************)
(* _expand_query and the expansion set of _search_with_expansion.  A list  *)
(* item is a string or a non-zero number (valid JSON the prompt does not   *)
(* ask for).                                                               *)
(***************************************************************************)
Str(s) == [t |-> "str", s |-> s]
Num == [t |-> "num", s |-> <<>>]

ExpUnparsable == [kind |-> "unparsable", refinements |-> <<>>, subqueries |-> <<>>]
ExpBadList == [kind |-> "badlist", refinements |-> <<>>, subqueries |-> <<>>]
ExpObj(refs, subs) == [kind |-> "object", refinements |-> refs, subqueries |-> subs]

\* (refinements, subqueries) of agent.py:342-350
expand_query(r) ==
    IF r.kind = "object" THEN <<r.refinements, r.subqueries>> ELSE << <<>>, <<>> >>

\* e and e.strip(), for a string e
NonBlank(s) == Len(s) > 0 /\ ~IsBlank(s)

KeepAll(items) == items

\* [e for e in expansions if e and e.strip()]
KeepNonBlank(items) == SelectSeq(items, LAMBDA e : NonBlank(e.s))

ExpansionSet(q, refs, subs) == KeepNonBlank(<<Str(q)>> \o refs \o subs)

\* e.strip() on a number raises AttributeError
ExpansionRaises(refs, subs) == \E i \in 1..Len(refs \o subs) : (refs \o subs)[i].t = "num"

PerQueryNoFloor(tk, n) == CeilDiv(tk, n)

\* max(2, math.ceil(self._top_k / len(expansions)))
PerQuery(tk, n) == Max(2, CeilDiv(tk, n))

(***************************************************************************)
(* RagAgent.run                                                            *)
(***************************************************************************)
\* answer_instructions of run: None, or a text
NoCustom == [given |-> FALSE, text |-> <<>>]
Custom(s) == [given |-> TRUE, text |-> s]

\* self._cache = {}, external_clients.py:34
EmptyCache == [k \in {} |-> 0]

\* a client nobody has called
ClientBlank ==
    /\ base_url = FALSE
    /\ cache_ttl = 0
    /\ cache = EmptyCache
    /\ now = 0
    /\ tasks = <<>>
    /\ writes = <<>>

\* nothing resolved, no prompt built, no client call
UnitBlank ==
    /\ custom_value = NoCustom
    /\ instructions = <<>>
    /\ msg_limit = messages_limit
    /\ prompt = <<>>
    /\ ClientBlank

\* debug["query_expansion"]: unset, the dict of agent.py:300, the dict of
\* agent.py:320
NoDebug ==
    [set |-> FALSE, strategy |-> "", expansions |-> <<>>, per_query |-> 0, merged |-> 0]

PlainDebug ==
    [set |-> TRUE, strategy |-> "plain", expansions |-> <<>>, per_query |-> 0, merged |-> 0]

FusedDebug(exps, pq, merged) ==
    [set |-> TRUE, strategy |-> "", expansions |-> exps, per_query |-> pq, merged |-> merged]

\* a collaborator call as run issued it and what came back: ok is FALSE when
\* it raised, kind is the kind of a chat response
Call(op, q, limit, scoped, ids, ok, clar, kind) ==
    [op |-> op, q |-> q, limit |-> limit, scoped |-> scoped, ids |-> ids,
     ok |-> ok, clar |-> clar, kind |-> kind]

ChatCall(op, kind) == Call(op, <<>>, 0, FALSE, <<>>, kind /= "raise", <<>>, kind)

RunUseQeDefaultOnly(d) == use_query_expansion

\* run_use_query_expansion, agent.py:85-87
RunUseQe(d) ==
    IF d.use_query_expansion /= "none" THEN d.use_query_expansion = "true"
    ELSE use_query_expansion

Role(message_type) == IF message_type = "MODEL" THEN "assistant" ELSE "user"

\* _load_chat_history over what get_last_for_chat returns
load_chat_history(msgs) == [i \in 1..Len(msgs) |-> Role(msgs[i])]

LoadHistory ==
    /\ pc = "start"
    /\ history' = IF chat_id /= 0
                  THEN load_chat_history(Last(stored, messages_limit))
                  ELSE <<>>
    /\ pc' = "classify"
    /\ UNCHANGED <<inputs, unit, scenario, refinements, subqueries, qx_debug, rule_guess, resp, decision, run_use_qe,
                   docs, total_len, expansions, per_query, results_by_query,
                   used_chunks, answer, path, calls>>

\* the chat call of _choose_scenario raises: nothing in run catches it
ClassifyRaises ==
    /\ pc = "classify"
    /\ calls' = Append(calls, ChatCall("classify", "raise"))
    /\ pc' = "raised"
    /\ UNCHANGED <<inputs, unit, scenario, refinements, subqueries, qx_debug, rule_guess, history, resp, decision,
                   run_use_qe, docs, total_len, expansions, per_query,
                   results_by_query, used_chunks, answer, path>>

ScenarioNormalised(d) ==
    IF d.scenario = 2 /\ selected_ids = <<>> THEN 3 ELSE d.scenario

\* scenario = decision.scenario, agent.py:81, returned at agent.py:156
ScenarioOf(d) == d.scenario

RetrievalEntry(use) == IF use THEN "expand" ELSE "search_plain"

\* run from the classification response to its next await, agent.py:80-154
Decide(r) ==
    LET d == choose_scenario(query, history, selected_ids, r)
        use == RunUseQe(d)
    IN  /\ rule_guess' = rule_guess_scenario(query, history, selected_ids)
        /\ decision' = d
        /\ scenario' = ScenarioOf(d)
        /\ run_use_qe' = use
        /\ calls' = Append(calls, ChatCall("classify", r.kind))
        /\ IF d.scenario = 2 /\ Len(selected_ids) > 0
           THEN pc' = "load_docs" /\ path' = path
           ELSE IF d.scenario = 1
           THEN pc' = RetrievalEntry(use) /\ path' = "retrieve_all"
           ELSE IF d.scenario = 4
           THEN pc' = "answer" /\ path' = "general"
           ELSE pc' = "answer" /\ path' = "clarify"

RunClassifyResponses ==
    {Unparsable}
    \cup {Obj(JNum(sc), JNum(60), JList(0), qe, "r", FALSE) :
              sc \in {10, 20, 30, 40, 70}, qe \in {JNull, JBool(FALSE)}}
    \cup {Obj(JNum(10), JNum(59), JList(0), JNull, "r", FALSE),
          Obj(JAbsent, JNum(100), JList(4), JStr(<<"Y", "E", "S">>), "r", TRUE)}

ClassifyReturns ==
    /\ pc = "classify"
    /\ \E r \in RunClassifyResponses : Decide(r)
    /\ UNCHANGED <<inputs, unit, refinements, subqueries, qx_debug, history, resp, docs,
                   total_len, expansions, per_query, results_by_query,
                   used_chunks, answer>>

DocLens == {0, 25000, 50001}

RECURSIVE SumSeq(_, _)
SumSeq(s, n) == IF n = 0 THEN 0 ELSE SumSeq(s, n - 1) + s[n]

\* sum(len(d.content) for d in docs if d.content): a document without
\* content is one of length 0
TotalLen(ds) == SumSeq(ds, Len(ds))

FitsBelow(total) == total < max_context_chars

\* total_len <= self._max_context_chars
Fits(total) == total <= max_context_chars

LoadDocumentsNeedsDocs ==
    /\ pc = "load_docs"
    /\ \E ds \in SeqsUpTo(DocLens, Len(selected_ids)) :
          /\ docs' = ds
          /\ total_len' = TotalLen(ds)
          /\ calls' = Append(calls,
                 Call("load_docs", <<>>, 0, TRUE, selected_ids, TRUE, <<>>, ""))
          /\ IF ds /= <<>> /\ Fits(TotalLen(ds))
             THEN pc' = "answer" /\ path' = "full_context"
             ELSE pc' = RetrievalEntry(run_use_qe) /\ path' = "retrieve_selected"
    /\ UNCHANGED <<inputs, unit, scenario, refinements, subqueries, qx_debug,
                   rule_guess, history, resp, decision, run_use_qe, expansions,
                   per_query, results_by_query, used_chunks, answer>>

\* _load_documents, then run to its next await (agent.py:103-121)
LoadDocuments ==
    /\ pc = "load_docs"
    /\ \E ds \in SeqsUpTo(DocLens, Len(selected_ids)) :
          /\ docs' = ds
          /\ total_len' = TotalLen(ds)
          /\ calls' = Append(calls,
                 Call("load_docs", <<>>, 0, TRUE, selected_ids, TRUE, <<>>, ""))
          /\ IF Fits(TotalLen(ds))
             THEN pc' = "answer" /\ path' = "full_context"
             ELSE pc' = RetrievalEntry(run_use_qe) /\ path' = "retrieve_selected"
    /\ UNCHANGED <<inputs, unit, scenario, refinements, subqueries, qx_debug, rule_guess, history, resp, decision,
                   run_use_qe, expansions, per_query, results_by_query,
                   used_chunks, answer>>

\* the chat call of _expand_query raises: neither _search_with_expansion
\* nor run catches it
ExpandRaises ==
    /\ pc = "expand"
    /\ calls' = Append(calls, ChatCall("expand", "raise"))
    /\ pc' = "raised"
    /\ UNCHANGED <<inputs, unit, scenario, refinements, subqueries, qx_debug, rule_guess, history, resp, decision,
                   run_use_qe, docs, total_len, expansions, per_query,
                   results_by_query, used_chunks, answer, path>>

RunItems == {Str(<<>>), Str(<<" ">>), Str(<<"b">>)}

RunExpandResponses ==
    {ExpUnparsable, ExpBadList, ExpObj(<<Num>>, <<>>)}
    \cup {ExpObj(refs, subs) :
              refs \in SeqsUpTo(RunItems, MaxRefs),
              subs \in {<<>>, <<Str(<<"c">>)>>}}

\* _search_with_expansion from the expansion response to its next await
\* (agent.py:293-302)
ExpandReturns ==
    /\ pc = "expand"
    /\ \E r \in RunExpandResponses :
          LET refs == expand_query(r)[1]
              subs == expand_query(r)[2]
              exps == ExpansionSet(query, refs, subs)
          IN  /\ calls' = Append(calls, ChatCall("expand", r.kind))
              /\ refinements' = refs
              /\ subqueries' = subs
              /\ IF ExpansionRaises(refs, subs)
                 THEN pc' = "raised" /\ UNCHANGED <<expansions, per_query>>
                 ELSE IF exps = <<>>
                 THEN pc' = "search_plain" /\ UNCHANGED <<expansions, per_query>>
                 ELSE /\ pc' = "search_variant"
                      /\ expansions' = [i \in 1..Len(exps) |-> exps[i].s]
                      /\ per_query' = PerQuery(top_k, Len(exps))
    /\ UNCHANGED <<inputs, unit, scenario, qx_debug, rule_guess, history, resp, decision,
                   run_use_qe, docs, total_len, results_by_query, used_chunks,
                   answer, path>>

ScopedWhenSelected == selected_ids /= <<>>

\* document_ids is selected_document_ids at agent.py:115, 120 and None at
\* agent.py:136, 140
Scoped == path = "retrieve_selected"

SearchCall(q, limit, ok) ==
    Call("search", q, limit, Scoped, IF Scoped THEN selected_ids ELSE <<>>, ok,
         <<>>, "")

Chunk(c, sc, pl) == [chunk_id |-> c, score |-> sc, payload |-> pl]

RunResultLists == { <<>>, <<Chunk(2, 80, "a"), Chunk(1, 90, "a")>> }

OnVectorSearchErrorUncaught ==
    /\ answer' = answer
    /\ pc' = "raised"

\* except VectorSearchError in run (agent.py:128-131, 147-150)
OnVectorSearchError ==
    /\ answer' = "unavailable"
    /\ pc' = "done"

SearchVariantRaisesKeeps ==
    /\ pc = "search_variant"
    /\ calls' = Append(calls,
           SearchCall(expansions[Len(results_by_query) + 1], per_query, FALSE))
    /\ used_chunks' = rrf_merge(results_by_query, rrf_k, top_k)
    /\ OnVectorSearchError
    /\ UNCHANGED <<inputs, unit, scenario, refinements, subqueries, qx_debug, rule_guess, history, resp, decision,
                   run_use_qe, docs, total_len, expansions, per_query,
                   results_by_query, path>>

SearchVariantRaisesSkips ==
    /\ pc = "search_variant"
    /\ calls' = Append(calls,
           SearchCall(expansions[Len(results_by_query) + 1], per_query, FALSE))
    /\ results_by_query' = Append(results_by_query, <<>>)
    /\ IF Len(results_by_query) + 1 = Len(expansions)
       THEN /\ used_chunks' = rrf_merge(results_by_query, rrf_k, top_k)
            /\ pc' = "answer"
       ELSE UNCHANGED <<used_chunks, pc>>
    /\ UNCHANGED <<inputs, unit, scenario, refinements, subqueries, qx_debug, rule_guess, history, resp, decision,
                   run_use_qe, docs, total_len, expansions, per_query,
                   answer, path>>

SearchVariantRaisesRetries ==
    /\ pc = "search_variant"
    /\ calls' = Append(calls,
           SearchCall(expansions[Len(results_by_query) + 1], per_query, FALSE))
    /\ UNCHANGED <<pc, inputs, unit, scenario, refinements, subqueries, qx_debug,
                   rule_guess, history, resp, decision, run_use_qe, docs,
                   total_len, expansions, per_query, results_by_query,
                   used_chunks, answer, path>>

\* a variant's search_document_chunks call raises: VectorSearchError, which
\* run catches (agent.py:315-317, 128-131, 147-150)
SearchVariantRaises ==
    /\ pc = "search_variant"
    /\ calls' = Append(calls,
           SearchCall(expansions[Len(results_by_query) + 1], per_query, FALSE))
    /\ OnVectorSearchError
    /\ UNCHANGED <<inputs, unit, scenario, refinements, subqueries, qx_debug, rule_guess, history, resp, decision,
                   run_use_qe, docs, total_len, expansions, per_query,
                   results_by_query, used_chunks, path>>

\* one pass of the loop at agent.py:305-314; after the last, the merge
SearchVariantReturns ==
    /\ pc = "search_variant"
    /\ \E r \in RunResultLists :
          LET got == Append(results_by_query, r)
          IN  /\ Len(r) <= per_query
              /\ results_by_query' = got
              /\ calls' = Append(calls,
                     SearchCall(expansions[Len(got)], per_query, TRUE))
              /\ IF Len(got) = Len(expansions)
                 THEN /\ used_chunks' = rrf_merge(got, rrf_k, top_k)
                      /\ qx_debug' = FusedDebug(expansions, per_query,
                                          Len(rrf_merge(got, rrf_k, top_k)))
                      /\ pc' = "answer"
                 ELSE UNCHANGED <<used_chunks, qx_debug, pc>>
    /\ UNCHANGED <<inputs, unit, scenario, refinements, subqueries, rule_guess, history, resp, decision,
                   run_use_qe, docs, total_len, expansions, per_query, answer, path>>

SearchPlainRaisesAnswers ==
    /\ pc = "search_plain"
    /\ calls' = Append(calls, SearchCall(query, top_k, FALSE))
    /\ pc' = "answer"
    /\ UNCHANGED <<inputs, unit, scenario, refinements, subqueries, qx_debug, rule_guess, history, resp, decision,
                   run_use_qe, docs, total_len, expansions, per_query,
                   results_by_query, used_chunks, answer, path>>

\* _search_chunks raises VectorSearchError (agent.py:278-280)
SearchPlainRaises ==
    /\ pc = "search_plain"
    /\ calls' = Append(calls, SearchCall(query, top_k, FALSE))
    /\ OnVectorSearchError
    /\ UNCHANGED <<inputs, unit, scenario, refinements, subqueries, qx_debug, rule_guess, history, resp, decision,
                   run_use_qe, docs, total_len, expansions, per_query,
                   results_by_query, used_chunks, path>>

SearchPlainReturns ==
    /\ pc = "search_plain"
    /\ \E r \in RunResultLists :
          /\ Len(r) <= top_k
          /\ used_chunks' = r
          /\ calls' = Append(calls, SearchCall(query, top_k, TRUE))
    /\ qx_debug' = IF run_use_qe THEN PlainDebug ELSE qx_debug
    /\ pc' = "answer"
    /\ UNCHANGED <<inputs, unit, scenario, refinements, subqueries, rule_guess, history, resp, decision,
                   run_use_qe, docs, total_len, expansions, per_query,
                   results_by_query, answer, path>>

AnswerOpByChunks ==
    IF path = "full_context" THEN "answer_full"
    ELSE IF path = "clarify" THEN "clarify"
    ELSE "answer_chunks"

AnswerOp ==
    IF path = "full_context" THEN "answer_full"
    ELSE IF path = "general" THEN "answer_general"
    ELSE IF path = "clarify" THEN "clarify"
    ELSE "answer_chunks"

AnswerCallNoClarifications(ok) ==
    Call(AnswerOp, query, 0, FALSE, <<>>, ok, <<>>,
         IF ok THEN "text" ELSE "raise")

AnswerCall(ok) ==
    Call(AnswerOp, query, 0, FALSE, <<>>, ok,
         IF path = "clarify" THEN decision.clarifications ELSE <<>>,
         IF ok THEN "text" ELSE "raise")

\* the chat call of the answer raises: run raises
AnswerRaises ==
    /\ pc = "answer"
    /\ calls' = Append(calls, AnswerCall(FALSE))
    /\ pc' = "raised"
    /\ UNCHANGED <<inputs, unit, scenario, refinements, subqueries, qx_debug, rule_guess, history, resp, decision,
                   run_use_qe, docs, total_len, expansions, per_query,
                   results_by_query, used_chunks, answer, path>>

\* _answer_with_full_context, _answer_with_chunks, _answer_general or
\* _ask_clarification returns the model's text; run returns the AgentResult
AnswerReturns ==
    /\ pc = "answer"
    /\ calls' = Append(calls, AnswerCall(TRUE))
    /\ answer' = "llm"
    /\ pc' = "done"
    /\ UNCHANGED <<inputs, unit, scenario, refinements, subqueries, qx_debug, rule_guess, history, resp, decision,
                   run_use_qe, docs, total_len, expansions, per_query,
                   results_by_query, used_chunks, path>>

RunQueries == { <<" ">>, <<"G", "D", "E">>, <<"a">> }

Turns(n) == [i \in 1..n |-> IF i % 2 = 1 THEN "USER" ELSE "MODEL"]

Blank ==
    /\ history = <<>>
    /\ resp = NoResponse
    /\ decision = NoDecision
    /\ run_use_qe = FALSE
    /\ docs = <<>>
    /\ total_len = 0
    /\ expansions = <<>>
    /\ per_query = 0
    /\ results_by_query = <<>>
    /\ used_chunks = <<>>
    /\ answer = ""
    /\ path = ""
    /\ calls = <<>>
    /\ rule_guess = 0
    /\ refinements = <<>>
    /\ subqueries = <<>>
    /\ qx_debug = NoDebug
    /\ scenario = 0

Init ==
    /\ pc = "start"
    /\ query \in RunQueries
    /\ chat_id \in {0, 1}
    /\ stored \in {Turns(n) : n \in 0..MaxHist}
    /\ selected_ids \in {<<>>, <<1>>, <<1, 2>>}
    /\ top_k = default_top_k
    /\ Blank
    /\ UnitBlank

Next ==
    \/ LoadHistory
    \/ ClassifyRaises
    \/ ClassifyReturns
    \/ LoadDocuments
    \/ ExpandRaises
    \/ ExpandReturns
    \/ SearchVariantRaises
    \/ SearchVariantReturns
    \/ SearchPlainRaises
    \/ SearchPlainReturns
    \/ AnswerRaises
    \/ AnswerReturns

Spec == Init /\ [][Next]_vars

(***************************************************************************)
(* _resolve_instructions alone, over every short text.                     *)
(***************************************************************************)
RECURSIVE StripLeading(_)
StripLeading(s) ==
    IF s /= <<>> /\ s[1] \in Whitespace THEN StripLeading(Tail(s)) ELSE s

RECURSIVE StripTrailing(_)
StripTrailing(s) ==
    IF s /= <<>> /\ s[Len(s)] \in Whitespace
    THEN StripTrailing(SubSeq(s, 1, Len(s) - 1))
    ELSE s

StripLeftOnly(s) == StripLeading(s)

\* str.strip()
Strip(s) == StripTrailing(StripLeading(s))

\* the text _answer_format_instructions returns, as one token
answer_format_instructions == <<"#">>

resolve_instructions(cv) ==
    IF cv.given /\ cv.text /= <<>> /\ Strip(cv.text) /= <<>>
    THEN Strip(cv.text)
    ELSE answer_format_instructions

TextAlphabet == {" ", "a", "b"}

ResolveInit ==
    /\ pc = "resolve"
    /\ query = <<>>
    /\ chat_id = 0
    /\ stored = <<>>
    /\ selected_ids = <<>>
    /\ top_k = default_top_k
    /\ Blank
    /\ custom_value \in {NoCustom} \cup {Custom(t) : t \in SeqsUpTo(TextAlphabet, MaxText)}
    /\ instructions = <<>>
    /\ msg_limit = messages_limit
    /\ prompt = <<>>
    /\ ClientBlank

ResolveInstructions ==
    /\ pc = "resolve"
    /\ instructions' = resolve_instructions(custom_value)
    /\ pc' = "resolved"
    /\ UNCHANGED <<inputs, scenario, refinements, subqueries, qx_debug, history,
                   resp, decision, rule_guess, run_use_qe, docs, total_len,
                   expansions, per_query, results_by_query, used_chunks, answer,
                   path, calls, custom_value, msg_limit, prompt, client>>

SpecResolve == ResolveInit /\ [][ResolveInstructions]_vars

(***************************************************************************)
(* The messages of an answer prompt (_answer_with_full_context,            *)
(* _answer_with_chunks, _answer_general, _ask_clarification), for every    *)
(* short history and every small messages_limit.  A message is its role    *)
(* and the history turn it is, 0 for the two messages the function writes. *)
(***************************************************************************)
\* history[-self._messages_limit:], the indices it keeps: -0 is 0 in Python,
\* so a limit of 0 slices from the start
Trailing(h, n) ==
    IF n = 0 \/ n >= Len(h) THEN 1..Len(h) ELSE (Len(h) - n + 1)..Len(h)

PromptMessages(h, n) ==
    LET kept == Trailing(h, n)
        skipped == Len(h) - Cardinality(kept)
    IN  <<[role |-> "system", turn |-> 0]>>
        \o [i \in 1..Cardinality(kept) |-> [role |-> h[skipped + i], turn |-> skipped + i]]
        \o <<[role |-> "user", turn |-> 0]>>

PromptInit ==
    /\ pc = "prompt"
    /\ query = <<"a">>
    /\ chat_id = 1
    /\ stored = <<>>
    /\ selected_ids = <<>>
    /\ top_k = default_top_k
    /\ history \in SeqsUpTo({"user", "assistant"}, MaxTurns)
    /\ msg_limit \in 0..(MaxTurns + 1)
    /\ path \in {"full_context", "retrieve_all", "general", "clarify"}
    /\ resp = NoResponse
    /\ decision = NoDecision
    /\ run_use_qe = FALSE
    /\ docs = <<>>
    /\ total_len = 0
    /\ expansions = <<>>
    /\ per_query = 0
    /\ results_by_query = <<>>
    /\ used_chunks = <<>>
    /\ answer = ""
    /\ calls = <<>>
    /\ rule_guess = 0
    /\ refinements = <<>>
    /\ subqueries = <<>>
    /\ qx_debug = NoDebug
    /\ scenario = 0
    /\ custom_value = NoCustom
    /\ instructions = answer_format_instructions
    /\ prompt = <<>>
    /\ ClientBlank

\* the function builds its messages and calls the chat client with them
BuildPrompt ==
    /\ pc = "prompt"
    /\ prompt' = PromptMessages(history, msg_limit)
    /\ calls' = Append(calls, AnswerCall(TRUE))
    /\ answer' = "llm"
    /\ pc' = "prompted"
    /\ UNCHANGED <<inputs, scenario, refinements, subqueries, qx_debug, history,
                   resp, decision, rule_guess, run_use_qe, docs, total_len,
                   expansions, per_query, results_by_query, used_chunks, path,
                   custom_value, instructions, msg_limit, client>>

SpecPrompt == PromptInit /\ [][BuildPrompt]_vars

(***************************************************************************)
(* _search_with_expansion alone, for every top_k up to the default.        *)
(***************************************************************************)
ExpandInit ==
    /\ pc = "expand"
    /\ query \in RunQueries
    /\ chat_id = 0
    /\ stored = <<>>
    /\ selected_ids \in {<<>>, <<1>>}
    /\ top_k \in 1..default_top_k
    /\ path = IF selected_ids = <<>> THEN "retrieve_all" ELSE "retrieve_selected"
    /\ run_use_qe = TRUE
    /\ history = <<>>
    /\ resp = NoResponse
    /\ decision = NoDecision
    /\ docs = <<>>
    /\ total_len = 0
    /\ expansions = <<>>
    /\ per_query = 0
    /\ results_by_query = <<>>
    /\ used_chunks = <<>>
    /\ answer = ""
    /\ calls = <<>>
    /\ rule_guess = 0
    /\ refinements = <<>>
    /\ subqueries = <<>>
    /\ qx_debug = NoDebug
    /\ scenario = 0
    /\ UnitBlank

SearchWithExpansion ==
    \/ ExpandRaises
    \/ ExpandReturns
    \/ SearchVariantRaises
    \/ SearchVariantReturns
    \/ SearchPlainRaises
    \/ SearchPlainReturns

SpecExpand == ExpandInit /\ [][SearchWithExpansion]_vars

(***************************************************************************)
(* _rule_guess_scenario alone, over every short query of a small alphabet. *)
(***************************************************************************)
Alphabet == {"g", "d", "e", "G", "E", " ", "a"}

RuleInit ==
    /\ pc = "rule"
    /\ query \in SeqsUpTo(Alphabet, MaxQuery)
    /\ chat_id = 1
    /\ stored \in {Turns(n) : n \in 0..MaxHist}
    /\ selected_ids \in {<<>>, <<1>>}
    /\ top_k = default_top_k
    /\ history = load_chat_history(stored)
    /\ resp = NoResponse
    /\ decision = NoDecision
    /\ run_use_qe = FALSE
    /\ docs = <<>>
    /\ total_len = 0
    /\ expansions = <<>>
    /\ per_query = 0
    /\ results_by_query = <<>>
    /\ used_chunks = <<>>
    /\ answer = ""
    /\ path = ""
    /\ calls = <<>>
    /\ rule_guess = 0
    /\ refinements = <<>>
    /\ subqueries = <<>>
    /\ qx_debug = NoDebug
    /\ scenario = 0
    /\ UnitBlank

RuleGuess ==
    /\ pc = "rule"
    /\ rule_guess' = rule_guess_scenario(query, history, selected_ids)
    /\ pc' = "rule_done"
    /\ UNCHANGED <<inputs, unit, scenario, refinements, subqueries, qx_debug, history, resp, decision, run_use_qe, docs, total_len,
                   expansions, per_query, results_by_query, used_chunks, answer,
                   path, calls>>

SpecRule == RuleInit /\ [][RuleGuess]_vars

(***************************************************************************)
(* _choose_scenario alone, over the responses the model can give.          *)
(***************************************************************************)
ClassifyResponses ==
    {Unparsable}
    \cup {Obj(sc, cf, cl, qe, rs, fu) :
              sc \in {JAbsent, JBad} \cup {JNum(n) : n \in {0, 10, 20, 27, 30, 40, 50}},
              cf \in {JAbsent, JBad} \cup {JNum(n) : n \in {0, 59, 60, 61, 100}},
              cl \in {JAbsent, JBad} \cup {JList(n) : n \in {0, 2, 3, 4}},
              qe \in {JNull, JBool(TRUE), JBool(FALSE),
                      JStr(<<"Y", "E", "S">>), JStr(<<"n", "o">>)},
              rs \in {"", "r"},
              fu \in BOOLEAN}

ChooseInit ==
    /\ pc = "choose"
    /\ query \in RunQueries
    /\ chat_id = 1
    /\ stored \in {Turns(n) : n \in 0..MaxHist}
    /\ selected_ids \in {<<>>, <<1>>}
    /\ top_k = default_top_k
    /\ history = load_chat_history(stored)
    /\ resp = NoResponse
    /\ decision = NoDecision
    /\ run_use_qe = FALSE
    /\ docs = <<>>
    /\ total_len = 0
    /\ expansions = <<>>
    /\ per_query = 0
    /\ results_by_query = <<>>
    /\ used_chunks = <<>>
    /\ answer = ""
    /\ path = ""
    /\ calls = <<>>
    /\ rule_guess = 0
    /\ refinements = <<>>
    /\ subqueries = <<>>
    /\ qx_debug = NoDebug
    /\ scenario = 0
    /\ UnitBlank

ChooseScenario ==
    /\ pc = "choose"
    /\ \E r \in ClassifyResponses :
          /\ resp' = r
          /\ decision' = choose_scenario(query, history, selected_ids, r)
    /\ rule_guess' = rule_guess_scenario(query, history, selected_ids)
    /\ pc' = "chosen"
    /\ UNCHANGED <<inputs, unit, scenario, refinements, subqueries, qx_debug, history, run_use_qe, docs, total_len, expansions,
                   per_query, results_by_query, used_chunks, answer, path, calls>>

\* the branch of run that ends in _ask_clarification (agent.py:102, 132,
\* 151-154) and the prompt that function builds from the clarifications
AskClarification ==
    /\ pc = "chosen"
    /\ ~(decision.scenario = 2 /\ Len(selected_ids) > 0)
    /\ decision.scenario \notin {1, 4}
    /\ calls' = Append(calls,
           Call("clarify", query, 0, FALSE, <<>>, TRUE, decision.clarifications,
                "text"))
    /\ pc' = "asked"
    /\ UNCHANGED <<inputs, unit, scenario, refinements, subqueries, qx_debug, history, resp, decision, rule_guess, run_use_qe, docs,
                   total_len, expansions, per_query, results_by_query,
                   used_chunks, answer, path>>

SpecClassify == ChooseInit /\ [][ChooseScenario \/ AskClarification]_vars

(***************************************************************************)
(* _rrf_merge alone: SpecRrf over few lists of every shape, SpecRrfDeep    *)
(* over many lists of few shapes.                                          *)
(***************************************************************************)
RrfItems == {Chunk(1, 90, "a"), Chunk(1, 80, "b"), Chunk(2, 80, "a")}

Injective(l) == \A i, j \in 1..Len(l) : i /= j => l[i] /= l[j]

RrfLists == {l \in SeqsUpTo(RrfItems, MaxLen) : Injective(l)}

DeepLists == { <<Chunk(1, 90, "a")>>,
               <<Chunk(2, 80, "a"), Chunk(1, 90, "a")>>,
               <<Chunk(2, 80, "a")>> }

RrfInit ==
    /\ pc = "merge"
    /\ query = <<>>
    /\ chat_id = 0
    /\ stored = <<>>
    /\ selected_ids = <<>>
    /\ top_k \in {1, default_top_k}
    /\ Blank
    /\ UnitBlank

RrfAddList ==
    /\ pc = "merge"
    /\ Len(results_by_query) < MaxLists
    /\ \E l \in RrfLists : results_by_query' = Append(results_by_query, l)
    /\ UNCHANGED <<pc, inputs, unit, scenario, refinements, subqueries, qx_debug, history, resp, decision, rule_guess, run_use_qe,
                   docs, total_len, expansions, per_query, used_chunks, answer,
                   path, calls>>

DeepAddList ==
    /\ pc = "merge"
    /\ Len(results_by_query) < MaxDeep
    /\ \E l \in DeepLists : results_by_query' = Append(results_by_query, l)
    /\ UNCHANGED <<pc, inputs, unit, scenario, refinements, subqueries, qx_debug, history, resp, decision, rule_guess, run_use_qe,
                   docs, total_len, expansions, per_query, used_chunks, answer,
                   path, calls>>

RrfMerge ==
    /\ pc = "merge"
    /\ used_chunks' = rrf_merge(results_by_query, rrf_k, top_k)
    /\ pc' = "merged"
    /\ UNCHANGED <<inputs, unit, scenario, refinements, subqueries, qx_debug, history, resp, decision, rule_guess, run_use_qe, docs,
                   total_len, expansions, per_query, results_by_query, answer,
                   path, calls>>

SpecRrf == RrfInit /\ [][RrfAddList \/ RrfMerge]_vars

SpecRrfDeep == RrfInit /\ [][DeepAddList \/ RrfMerge]_vars

\* lists in which a chunk id comes back with equal and with different raw
\* scores, in one list and across lists
TieLists == { <<Chunk(1, 90, "a")>>,
              <<Chunk(1, 90, "b"), Chunk(2, 80, "a")>>,
              <<Chunk(2, 80, "b"), Chunk(1, 80, "c")>>,
              <<Chunk(1, 95, "d"), Chunk(1, 95, "e")>> }

TieAddList ==
    /\ pc = "merge"
    /\ Len(results_by_query) < MaxTies
    /\ \E l \in TieLists : results_by_query' = Append(results_by_query, l)
    /\ UNCHANGED <<pc, inputs, unit, scenario, refinements, subqueries, qx_debug,
                   history, resp, decision, rule_guess, run_use_qe, docs,
                   total_len, expansions, per_query, used_chunks, answer, path,
                   calls>>

SpecRrfBest == RrfInit /\ [][TieAddList \/ RrfMerge]_vars

(***************************************************************************)
(* CentralBankClient (external_clients.py): one client, up to MaxFetches   *)
(* calls of fetch, which may overlap at the await of _call_api, and the    *)
(* clock _now_ts reads.                                                    *)
(***************************************************************************)

\* everything but the client
agent == <<pc, inputs, custom_value, instructions, msg_limit, prompt, scenario,
           history, resp, decision, rule_guess, run_use_qe, docs, total_len,
           expansions, per_query, results_by_query, used_chunks, answer, path,
           calls, refinements, subqueries, qx_debug>>

\* a mode _call_api serves and one it rejects with ValueError
Modes == {"key_rate", "other"}

\* the payload, by the text json.dumps(payload, sort_keys=True) gives
Payloads == {"{}"}

\* cache_ttl_seconds given to the constructor
CacheTtlSeconds == {-1, 0, 2}

\* cache_key
CacheKey(mode, payload) == <<mode, payload>>

\* str(exc) of what _call_api raised
ApiErrors(mode) == IF mode = "other" THEN {"unsupported"} ELSE {"timeout"}

\* the dict _stub_response builds for call i: it always has an "error"
\* entry, None when no error was passed
Stub(err, i) == [source |-> "stub", error |-> err, obj |-> i]

\* the dict _call_api returned to call i
ApiData(i) == [source |-> "api", error |-> "absent", obj |-> i]

NoData == [source |-> "", error |-> "", obj |-> 0]

CachedValue(value, expires_at) == [value |-> value, expires_at |-> expires_at]

\* cached and cached.expires_at > _now_ts()
CacheHit(c, key, t) == key \in DOMAIN c /\ c[key].expires_at > t

StoreSuccessOnly(c, key, data, t) ==
    IF cache_ttl /= 0 /\ data.source = "api"
    THEN [k \in DOMAIN c \cup {key} |->
             IF k = key THEN CachedValue(data, t + cache_ttl) ELSE c[k]]
    ELSE c

\* if self._cache_ttl: self._cache[cache_key] = CachedValue(...)
Store(c, key, data, t) ==
    IF cache_ttl /= 0
    THEN [k \in DOMAIN c \cup {key} |->
             IF k = key THEN CachedValue(data, t + cache_ttl) ELSE c[k]]
    ELSE c

\* a call of fetch at its cache check
Task(mode, payload) ==
    [mode |-> mode, payload |-> payload, pc |-> "check", checked_at |-> now,
     seen_writes |-> Len(writes), api |-> FALSE, raised |-> FALSE,
     data |-> NoData, cached |-> FALSE, wrote |-> 0, expires_at |-> -1]

\* the call returns {"status": "ok", "data": data, "cached": cached}
Return(t, data, cached) ==
    [t EXCEPT !.pc = "returned", !.data = data, !.cached = cached]

\* the tail of fetch, lines 50-54, for call i in state t: store when the
\* ttl is not 0, then return with cached False
Finish(i, t, data) ==
    LET key == CacheKey(t.mode, t.payload)
        c == Store(cache, key, data, now)
        n == Max(Len(tasks), i)
        r == Return(t, data, FALSE)
        r2 == IF c /= cache
              THEN [r EXCEPT !.wrote = Len(writes) + 1,
                             !.expires_at = c[key].expires_at]
              ELSE r
    IN  /\ cache' = c
        /\ writes' = IF c /= cache THEN Append(writes, key) ELSE writes
        /\ tasks' = [j \in 1..n |-> IF j = i THEN r2 ELSE tasks[j]]

ClientInit ==
    /\ pc = "fetch"
    /\ query = <<>>
    /\ chat_id = 0
    /\ stored = <<>>
    /\ selected_ids = <<>>
    /\ top_k = default_top_k
    /\ Blank
    /\ custom_value = NoCustom
    /\ instructions = <<>>
    /\ msg_limit = messages_limit
    /\ prompt = <<>>
    /\ base_url \in BOOLEAN
    /\ cache_ttl \in {Max(0, s) : s \in CacheTtlSeconds}
    /\ cache = EmptyCache
    /\ now = 0
    /\ tasks = <<>>
    /\ writes = <<>>

\* fetch(mode, payload) up to its return or to the await of _call_api
Fetch(mode, payload) ==
    /\ pc = "fetch"
    /\ Len(tasks) < MaxFetches
    /\ LET key == CacheKey(mode, payload)
           t == Task(mode, payload)
           i == Len(tasks) + 1
       IN  IF CacheHit(cache, key, now)
           THEN /\ tasks' = Append(tasks, Return(t, cache[key].value, TRUE))
                /\ UNCHANGED <<cache, writes>>
           ELSE IF ~base_url
           THEN Finish(i, t, Stub("None", i))
           ELSE /\ tasks' = Append(tasks, [t EXCEPT !.pc = "api", !.api = TRUE])
                /\ UNCHANGED <<cache, writes>>
    /\ UNCHANGED <<agent, base_url, cache_ttl, now>>

\* _call_api returns to call i
ApiReturns(i) ==
    /\ tasks[i].pc = "api"
    /\ tasks[i].mode /= "other"
    /\ Finish(i, tasks[i], ApiData(i))
    /\ UNCHANGED <<agent, base_url, cache_ttl, now>>

\* _call_api raises in call i: the except of line 47 answers with the stub
ApiRaises(i) ==
    /\ tasks[i].pc = "api"
    /\ \E e \in ApiErrors(tasks[i].mode) :
          Finish(i, [tasks[i] EXCEPT !.raised = TRUE], Stub(e, i))
    /\ UNCHANGED <<agent, base_url, cache_ttl, now>>

\* time passes
Tick ==
    /\ pc = "fetch"
    /\ now < MaxTime
    /\ now' = now + 1
    /\ UNCHANGED <<agent, base_url, cache_ttl, cache, tasks, writes>>

FetchNext ==
    \/ \E mode \in Modes, payload \in Payloads : Fetch(mode, payload)
    \/ \E i \in 1..Len(tasks) : ApiReturns(i)
    \/ \E i \in 1..Len(tasks) : ApiRaises(i)
    \/ Tick

SpecFetch == ClientInit /\ [][FetchNext]_vars

(***************************************************************************)
(* Properties.                                                             *)
(***************************************************************************)
CallIdx == 1..Len(calls)

SearchCalls == {i \in CallIdx : calls[i].op = "search"}

Expanded == \E i \in CallIdx : calls[i].op = "expand" /\ calls[i].ok

AllSearchesFailed ==
    /\ SearchCalls /= {}
    /\ \A i \in SearchCalls : ~calls[i].ok

\* C1: when classification and expansion returned and every vector-search
\* call the expansion search issued raised, run has returned (it did not
\* raise) with the unavailable-service message as answer and no used chunks.
C1_AllVariantsFail ==
    (Expanded /\ AllSearchesFailed) =>
        /\ pc = "done"
        /\ answer = "unavailable"
        /\ used_chunks = <<>>

C1_Witness ==
    /\ Expanded
    /\ AllSearchesFailed
    /\ pc = "done"
    /\ expansions /= <<>>

\* C2: when the classification chat call raises, the failure stays inside
\* the classifier: the decision is the rule fallback (scenario = rule guess,
\* confidence 0.0) and run does not raise.
C2_ClassifierFailureContained ==
    \A i \in CallIdx :
        (calls[i].op = "classify" /\ ~calls[i].ok) =>
            /\ pc /= "raised"
            /\ decision = RuleFallback(rule_guess_scenario(query, history, selected_ids))

\* C3: when the expansion chat call raises or its output cannot be parsed,
\* run does not raise on it and the search goes on for the original query
\* only.
C3_ExpansionFailureContained ==
    \A i \in CallIdx :
        (calls[i].op = "expand" /\ calls[i].kind /= "object" /\ i = Len(calls)) =>
            /\ pc \in {"search_variant", "search_plain"}
            /\ pc = "search_variant" => expansions = <<query>>

RetrievalPaths == {"retrieve_all", "retrieve_selected"}

\* C4: in a returned AgentResult used_chunks is non-empty only on a
\* retrieval path all of whose retrieval calls returned; it is empty on the
\* scenario 3 and 4 paths, on the full-context path and whenever the answer
\* is the unavailable-service message.
C4_UsedChunksOnlyAfterRetrieval ==
    pc = "done" =>
        /\ used_chunks /= <<>> =>
              /\ path \in RetrievalPaths
              /\ SearchCalls /= {}
              /\ \A i \in SearchCalls : calls[i].ok
        /\ path \in {"general", "clarify", "full_context"} => used_chunks = <<>>
        /\ decision.scenario \in {3, 4} => used_chunks = <<>>
        /\ answer = "unavailable" => used_chunks = <<>>

C4_Witness ==
    /\ pc = "done"
    /\ used_chunks /= <<>>
    /\ path = "retrieve_selected"
    /\ Len(results_by_query) >= 2

LoadedDocs == \E i \in CallIdx : calls[i].op = "load_docs"

\* C5: once the selected documents are loaded on the scenario-2 path, a
\* total length <= max_context_chars means the full-context path and no
\* expansion or retrieval call at all; a larger total means the retrieval
\* path and never a full-context answer.
C5_BudgetDecides ==
    LoadedDocs =>
        IF total_len <= 50000
        THEN /\ path = "full_context"
             /\ \A i \in CallIdx : calls[i].op \notin {"search", "expand", "answer_chunks"}
        ELSE /\ path = "retrieve_selected"
             /\ \A i \in CallIdx : calls[i].op /= "answer_full"

C5_Witness ==
    /\ LoadedDocs
    /\ total_len = 50000
    /\ pc = "done"
    /\ calls[Len(calls)].op = "answer_full"

\* C6: the rule guess is the priority cascade: selected ids give 2 whatever
\* the query and the history; otherwise a search keyword in the lower-cased
\* query gives 1; otherwise empty history gives 3; otherwise 4.
C6_RuleCascade ==
    pc = "rule_done" =>
        /\ rule_guess \in 1..4
        /\ selected_ids /= <<>> => rule_guess = 2
        /\ (selected_ids = <<>> /\ HasKeyword(query)) => rule_guess = 1
        /\ (selected_ids = <<>> /\ ~HasKeyword(query) /\ history = <<>>) => rule_guess = 3
        /\ (selected_ids = <<>> /\ ~HasKeyword(query) /\ history /= <<>>) => rule_guess = 4

C6_Witness ==
    /\ pc = "rule_done"
    /\ selected_ids /= <<>>
    /\ query = <<"G", "d", "E">>
    /\ history = <<>>
    /\ rule_guess = 2

Parsed(r) ==
    /\ r.kind = "object"
    /\ r.scenario.t /= "bad"
    /\ r.confidence.t /= "bad"
    /\ r.clarifications.t /= "bad"

ModelScenario(r) == IF r.scenario.t = "absent" THEN 3 ELSE r.scenario.v \div 10

ModelConfidence(r) == IF r.confidence.t = "absent" THEN 50 ELSE r.confidence.v

\* C7: for a parsed classification response the decision takes the model's
\* scenario when confidence >= 0.6 (0.6 included) and the rule guess when
\* confidence < 0.6, an absent confidence counting as 0.5.
C7_TieBreak ==
    (pc = "chosen" /\ Parsed(resp)) =>
        /\ ModelConfidence(resp) >= 60 => decision.scenario = ModelScenario(resp)
        /\ ModelConfidence(resp) < 60 => decision.scenario = rule_guess
        /\ resp.confidence.t = "absent" => decision.scenario = rule_guess

C7_Witness ==
    /\ pc = "chosen"
    /\ Parsed(resp)
    /\ resp.confidence = JNum(60)
    /\ resp.scenario = JNum(40)
    /\ rule_guess = 2
    /\ decision.scenario = 4

FusedScore(c) == RrfFused(results_by_query, rrf_k).fused_scores[c.chunk_id]

\* C8: the output of _rrf_merge has no two results with the same chunk_id
\* and is ordered by non-increasing fused score.
C8_NoDuplicatesSorted ==
    pc = "merged" =>
        /\ \A i, j \in 1..Len(used_chunks) :
              i /= j => used_chunks[i].chunk_id /= used_chunks[j].chunk_id
        /\ \A i \in 1..(Len(used_chunks) - 1) :
              FGe(FusedScore(used_chunks[i]), FusedScore(used_chunks[i + 1]))

C8_Witness ==
    /\ pc = "merged"
    /\ Len(used_chunks) = 2
    /\ FGt(FusedScore(used_chunks[1]), FusedScore(used_chunks[2]))
    /\ \E n \in 1..Len(results_by_query) :
          /\ Len(results_by_query[n]) = 2
          /\ results_by_query[n][1].chunk_id = results_by_query[n][2].chunk_id

OncePerList ==
    \A n \in 1..Len(results_by_query) :
        \A i, j \in 1..Len(results_by_query[n]) :
            i /= j => results_by_query[n][i].chunk_id /= results_by_query[n][j].chunk_id

InList(c, l) == \E i \in 1..Len(l) : l[i].chunk_id = c

PositionIn(c, l) == CHOOSE i \in 1..Len(l) : l[i].chunk_id = c

RECURSIVE ContributionSum(_, _)
\* the float sum, in list order over the first n lists, of 1/(k + rank) for
\* the lists that hold chunk c; the other lists add nothing
ContributionSum(c, n) ==
    IF n = 0 THEN FZero
    ELSE IF InList(c, results_by_query[n])
         THEN FAdd(ContributionSum(c, n - 1),
                   FDiv(1, 60 + PositionIn(c, results_by_query[n])))
         ELSE ContributionSum(c, n - 1)

FusedIds == DOMAIN RrfFused(results_by_query, rrf_k).fused_scores

SumOfContributions ==
    \A c \in FusedIds :
        RrfFused(results_by_query, rrf_k).fused_scores[c]
            = ContributionSum(c, Len(results_by_query))

FirstEverywhere(c) ==
    /\ results_by_query /= <<>>
    /\ \A n \in 1..Len(results_by_query) :
          results_by_query[n] /= <<>> /\ results_by_query[n][1].chunk_id = c

\* C9 as claimed: with each chunk_id at most once per list the fused score
\* is the sum of 1/(k + rank) over the lists holding the chunk, and a chunk
\* at rank 1 in all N lists scores exactly N/(k + 1).
C9_ExactlyNOverK ==
    (pc = "merged" /\ OncePerList) =>
        /\ SumOfContributions
        /\ \A c \in FusedIds :
              FirstEverywhere(c) =>
                  RrfFused(results_by_query, rrf_k).fused_scores[c]
                      = FDiv(Len(results_by_query), 61)

\* C9 as amended: the fused score is the float sum, accumulated in list
\* order, of the floats 1.0/(k + rank) over the lists holding the chunk; it
\* is the float N/(k + 1) for a chunk at rank 1 in all N lists when N <= 4.
C9_FloatSum ==
    (pc = "merged" /\ OncePerList) =>
        /\ SumOfContributions
        /\ \A c \in FusedIds :
              (FirstEverywhere(c) /\ Len(results_by_query) <= 4) =>
                  RrfFused(results_by_query, rrf_k).fused_scores[c]
                      = FDiv(Len(results_by_query), 61)

C9_Witness ==
    /\ pc = "merged"
    /\ OncePerList
    /\ results_by_query = << <<Chunk(1, 90, "a")>>,
                             <<Chunk(2, 80, "a"), Chunk(1, 90, "a")>>,
                             <<Chunk(2, 80, "a")>>,
                             <<Chunk(1, 90, "a")>> >>
    /\ FusedScore(Chunk(1, 90, "a"))
           = FAdd(FAdd(FDiv(1, 61), FDiv(1, 62)), FDiv(1, 61))
    /\ FusedScore(Chunk(2, 80, "a")) = FAdd(FDiv(1, 61), FDiv(1, 61))
    /\ used_chunks = <<Chunk(1, 90, "a"), Chunk(2, 80, "a")>>

OkSearches == {i \in SearchCalls : calls[i].ok}

\* C10: a variant retrieval call that raises ends the fused search: it is
\* the last call of the run, the answer is the unavailable-service message
\* and no chunk is used; a ranking is only ever fused from the results of
\* all the variants.
C10_NoPartialFusion ==
    /\ \A i \in SearchCalls :
          ~calls[i].ok =>
              /\ i = Len(calls)
              /\ pc = "done"
              /\ answer = "unavailable"
              /\ used_chunks = <<>>
    /\ (expansions /= <<>> /\ pc \in {"answer", "done", "raised"} /\ answer /= "unavailable") =>
          /\ Len(results_by_query) = Len(expansions)
          /\ Cardinality(OkSearches) = Len(expansions)
          /\ used_chunks = rrf_merge(results_by_query, 60, top_k)

C10_Witness ==
    /\ pc = "done"
    /\ answer = "unavailable"
    /\ Len(expansions) = 3
    /\ Len(results_by_query) = 2
    /\ results_by_query[1] /= <<>>
    /\ ~calls[Len(calls)].ok

AnswerOps == {"answer_full", "answer_chunks", "answer_general", "clarify"}

AnswerCalls == {i \in CallIdx : calls[i].op \in AnswerOps}

Classified == \E i \in CallIdx : calls[i].op = "classify" /\ calls[i].ok

\* C11: once a retrieval call of the run has raised (the plain search or a
\* variant of the expansion search), the answer is the unavailable-service
\* message and the run holds no answer call to the language model.
C11_FailedRetrievalNoAnswerCall ==
    (\E i \in SearchCalls : ~calls[i].ok) =>
        /\ answer = "unavailable"
        /\ AnswerCalls = {}

C11_Witness ==
    /\ pc = "done"
    /\ Expanded
    /\ expansions = <<>>
    /\ Cardinality(SearchCalls) = 1
    /\ calls[Len(calls)].op = "search"
    /\ ~calls[Len(calls)].ok
    /\ calls[Len(calls)].q = query

\* C12: every retrieval call carries the scope of its path: no document_ids
\* filter under scenario 1, exactly the caller's selected ids on the
\* over-budget scenario-2 path, for the plain search and for every variant.
C12_RetrievalScope ==
    \A i \in SearchCalls :
        /\ decision.scenario \in {1, 2}
        /\ decision.scenario = 1 =>
              /\ ~calls[i].scoped
              /\ calls[i].ids = <<>>
        /\ decision.scenario = 2 =>
              /\ selected_ids /= <<>>
              /\ total_len > 50000
              /\ calls[i].scoped
              /\ calls[i].ids = selected_ids

C12_Witness ==
    /\ decision.scenario = 1
    /\ selected_ids = <<1, 2>>
    /\ Cardinality(SearchCalls) >= 2
    /\ \A i \in SearchCalls : ~calls[i].scoped

\* C13: a run whose decision is scenario 4 loads no documents, issues no
\* expansion and no retrieval call, makes one answer call, the general one,
\* and returns with no used chunks.
C13_GeneralPath ==
    (Classified /\ decision.scenario = 4) =>
        /\ \A i \in CallIdx : calls[i].op \notin {"load_docs", "expand", "search"}
        /\ \A i \in AnswerCalls : calls[i].op = "answer_general"
        /\ Cardinality(AnswerCalls) = IF pc = "answer" THEN 0 ELSE 1
        /\ used_chunks = <<>>
        /\ pc \in {"answer", "done", "raised"}
        /\ pc = "done" => answer = "llm"

C13_Witness ==
    /\ pc = "done"
    /\ decision.scenario = 4
    /\ selected_ids /= <<>>
    /\ calls[Len(calls)].op = "answer_general"

\* C14: a run whose decision is scenario 3, or any value other than 1, 2 and
\* 4, loads no documents, issues no expansion and no retrieval call, and
\* makes one clarification call, given the decision's clarifications.
C14_ClarifyPath ==
    (Classified /\ decision.scenario \notin {1, 2, 4}) =>
        /\ \A i \in CallIdx : calls[i].op \notin {"load_docs", "expand", "search"}
        /\ \A i \in AnswerCalls :
              /\ calls[i].op = "clarify"
              /\ calls[i].clar = decision.clarifications
        /\ Cardinality(AnswerCalls) = IF pc = "answer" THEN 0 ELSE 1
        /\ pc \in {"answer", "done", "raised"}

C14_Witness ==
    /\ pc = "done"
    /\ decision.scenario = 3
    /\ decision.clarifications = <<1, 2, 3>>
    /\ calls[Len(calls)].op = "clarify"
    /\ calls[Len(calls)].clar = <<1, 2, 3>>

ExpandCalled == \E i \in CallIdx : calls[i].op = "expand"

EffectiveFlag ==
    IF decision.use_query_expansion = "none" THEN TRUE
    ELSE decision.use_query_expansion = "true"

RuleFallbackTaken ==
    \E i \in CallIdx : calls[i].op = "classify" /\ calls[i].kind = "unparsable"

C16_ParseFailureFallsBack ==
    (pc \in {"chosen", "asked"} /\ ~Parsed(resp)) =>
        decision = [scenario |-> rule_guess,
                    confidence |-> 0,
                    reason |-> "rule fallback",
                    follow_up |-> FALSE,
                    clarifications |-> <<>>,
                    use_query_expansion |-> "none"]

C16_Witness ==
    /\ pc = "chosen"
    /\ resp.kind = "object"
    /\ resp.clarifications = JBad
    /\ resp.confidence = JNum(100)
    /\ resp.scenario = JNum(40)
    /\ resp.qe = JBool(FALSE)
    /\ resp.follow_up
    /\ rule_guess = 2
    /\ decision.scenario = 2
    /\ decision.confidence = 0

\* C17: the scenario of every decision of _choose_scenario, the one run
\* returns, is one of 1, 2, 3, 4.
C17_ScenarioInRange ==
    Classified => decision.scenario \in {1, 2, 3, 4}

ModelClarifications(r) ==
    IF r.clarifications.t = "list" THEN [i \in 1..r.clarifications.v |-> i] ELSE <<>>

\* C18: a decision has at most 3 clarifications, the first 3 of the model's
\* in the model's order when it gave more, and the clarification prompt
\* gets at most 3 of them.
C18_AtMostThreeClarifications ==
    /\ Len(decision.clarifications) <= 3
    /\ (pc \in {"chosen", "asked"} /\ Parsed(resp)) =>
          LET given == ModelClarifications(resp)
          IN  /\ Len(decision.clarifications) = IF Len(given) < 3 THEN Len(given) ELSE 3
              /\ \A i \in 1..Len(decision.clarifications) :
                    decision.clarifications[i] = given[i]
    /\ \A i \in CallIdx :
          /\ Len(calls[i].clar) <= 3
          /\ calls[i].op = "clarify" => calls[i].clar = decision.clarifications

C18_Witness ==
    /\ pc = "asked"
    /\ resp.clarifications = JList(4)
    /\ decision.clarifications = <<1, 2, 3>>
    /\ calls[Len(calls)].clar = <<1, 2, 3>>

\* C19: in a fused search over n >= 1 variants every retrieval call has the
\* same limit, max(2, ceil(top_k / n)): never below 2, and n limits together
\* never below top_k.
C19_PerQueryLimit ==
    expansions /= <<>> =>
        LET n == Len(expansions)
            ceil == IF top_k % n = 0 THEN top_k \div n ELSE top_k \div n + 1
        IN  /\ \A i \in SearchCalls : calls[i].limit = per_query
            /\ per_query = IF ceil > 2 THEN ceil ELSE 2
            /\ per_query >= 2
            /\ n * per_query >= top_k

C19_Witness ==
    /\ pc = "answer"
    /\ top_k = 2
    /\ Len(expansions) = 3
    /\ Cardinality(SearchCalls) = 3
    /\ \A i \in SearchCalls : calls[i].limit = 2

Searched == [i \in 1..Cardinality(SearchCalls) |->
                calls[CHOOSE j \in SearchCalls :
                          Cardinality({m \in SearchCalls : m <= j}) = i].q]

AllStrings == \A i \in 1..Len(refinements \o subqueries) :
                  (refinements \o subqueries)[i].t = "str"

Candidates == <<query>> \o [i \in 1..Len(refinements \o subqueries) |->
                                (refinements \o subqueries)[i].s]

Kept == SelectSeq(Candidates, LAMBDA e : \E i \in 1..Len(e) : e[i] /= " ")

\* C20: the variants searched are the query, then the refinements, then the
\* subqueries, in that order, without the empty and the whitespace-only
\* strings; only when none is left there is one plain retrieval call for
\* the query alone, reported as strategy "plain" with no expansions.
C20_ExpansionSet ==
    (ExpandCalled /\ calls[1].ok /\ AllStrings) =>
        /\ expansions = Kept
        /\ \A i \in 1..Len(Searched) : i <= Len(Kept) => Searched[i] = Kept[i]
        /\ Kept /= <<>> =>
              /\ Len(Searched) <= Len(Kept)
              /\ qx_debug.strategy /= "plain"
              /\ pc = "answer" => (Len(Searched) = Len(Kept) /\ qx_debug.expansions = Kept)
        /\ Kept = <<>> =>
              /\ Len(Searched) <= 1
              /\ Searched \in {<<>>, <<query>>}
              /\ \A i \in SearchCalls : calls[i].limit = top_k
              /\ pc = "answer" => (Searched = <<query>> /\ qx_debug = PlainDebug)

C20_Witness ==
    /\ pc = "answer"
    /\ query = <<"a">>
    /\ refinements = <<Str(<<" ">>)>>
    /\ subqueries = <<Str(<<"c">>)>>
    /\ expansions = << <<"a">>, <<"c">> >>
    /\ Searched = << <<"a">>, <<"c">> >>

Occurrences == Flatten(results_by_query, Len(results_by_query))

OccurrencesOf(cid) == {i \in 1..Len(Occurrences) : Occurrences[i].res.chunk_id = cid}

\* C21: the instance _rrf_merge emits for a chunk id is one of its
\* occurrences in the input lists, with the highest raw score of them all,
\* and the first such occurrence (earliest list, earliest position) when
\* several have that score.
C21_BestInstance ==
    pc = "merged" =>
        \A n \in 1..Len(used_chunks) :
            LET occ == OccurrencesOf(used_chunks[n].chunk_id)
            IN  \E i \in occ :
                    /\ Occurrences[i].res = used_chunks[n]
                    /\ \A j \in occ : Occurrences[j].res.score <= used_chunks[n].score
                    /\ \A j \in occ : j < i => Occurrences[j].res.score < used_chunks[n].score

C21_Witness ==
    /\ pc = "merged"
    /\ results_by_query = << <<Chunk(2, 80, "b"), Chunk(1, 80, "c")>>,
                             <<Chunk(1, 90, "b"), Chunk(2, 80, "a")>>,
                             <<Chunk(1, 90, "a")>> >>
    /\ used_chunks = <<Chunk(1, 90, "b"), Chunk(2, 80, "b")>>

\* the full fused ordering: _rrf_merge without a limit that cuts
FullRanking == rrf_merge(results_by_query, rrf_k, Len(Occurrences))

\* C22: the fused ranking has at most top_k entries and is the first top_k
\* entries of the full fused ordering: no chunk left out has a higher
\* fused score than one that is returned.
C22_TruncatedToTopK ==
    pc = "merged" =>
        /\ Len(used_chunks) <= top_k
        /\ Len(used_chunks) = IF Len(FullRanking) < top_k THEN Len(FullRanking) ELSE top_k
        /\ \A i \in 1..Len(used_chunks) : used_chunks[i] = FullRanking[i]
        /\ \A i \in 1..Len(used_chunks) :
              \A c \in FusedIds :
                  (\A j \in 1..Len(used_chunks) : used_chunks[j].chunk_id /= c) =>
                      FGe(FusedScore(used_chunks[i]),
                          RrfFused(results_by_query, rrf_k).fused_scores[c])

C22_Witness ==
    /\ pc = "merged"
    /\ top_k = 1
    /\ Len(FullRanking) = 2
    /\ Len(used_chunks) = 1
    /\ FGt(FusedScore(FullRanking[1]), FusedScore(FullRanking[2]))

HasText(s) == \E i \in 1..Len(s) : s[i] /= " "

FirstText(s) == CHOOSE i \in 1..Len(s) : s[i] /= " " /\ \A j \in 1..(i - 1) : s[j] = " "

LastText(s) == CHOOSE i \in 1..Len(s) : s[i] /= " " /\ \A j \in (i + 1)..Len(s) : s[j] = " "

\* C23 as claimed: custom instructions with a non-whitespace character come
\* back unchanged, character for character; absent, empty or
\* whitespace-only ones give the fixed default.
C23_Verbatim ==
    pc = "resolved" =>
        IF custom_value.given /\ HasText(custom_value.text)
        THEN instructions = custom_value.text
        ELSE instructions = <<"#">>

\* C23 as amended: custom instructions with a non-whitespace character come
\* back without their leading and trailing whitespace, unchanged in
\* between (so unchanged when they have none); absent, empty or
\* whitespace-only ones give the fixed default.
C23_Stripped ==
    pc = "resolved" =>
        IF custom_value.given /\ HasText(custom_value.text)
        THEN LET t == custom_value.text
             IN  /\ instructions = SubSeq(t, FirstText(t), LastText(t))
                 /\ (t[1] /= " " /\ t[Len(t)] /= " ") => instructions = t
        ELSE instructions = <<"#">>

C23_Witness ==
    /\ pc = "resolved"
    /\ custom_value = Custom(<<" ", "a", " ", "b">>)
    /\ instructions = <<"a", " ", "b">>

\* C24: for every history and every messages_limit >= 0 an answer prompt is
\* one system message, then the last messages_limit history turns in their
\* order, never more than messages_limit of them, then one user message
\* written by the function.
C24_PromptShape ==
    pc = "prompted" =>
        LET n == Len(prompt) - 2
        IN  /\ n >= 0
            /\ prompt[1] = [role |-> "system", turn |-> 0]
            /\ prompt[Len(prompt)] = [role |-> "user", turn |-> 0]
            /\ n <= msg_limit
            /\ n = IF Len(history) < msg_limit THEN Len(history) ELSE msg_limit
            /\ \A i \in 1..n :
                  /\ prompt[i + 1].turn = Len(history) - n + i
                  /\ prompt[i + 1].role = history[Len(history) - n + i]

Perms(n) == {f \in [1..n -> 1..n] : \A i, j \in 1..n : i /= j => f[i] /= f[j]}

Permuted(lists, f) == [i \in 1..Len(lists) |-> lists[f[i]]]

Ids(s) == [i \in 1..Len(s) |-> s[i].chunk_id]

\* C25 as claimed: for every permutation of the lists given to _rrf_merge
\* the returned sequence is the same, ties on fused score or on raw score
\* included.
C25_OrderIndependent ==
    pc = "merged" =>
        \A f \in Perms(Len(results_by_query)) :
            rrf_merge(Permuted(results_by_query, f), rrf_k, top_k) = used_chunks

SameScores(A, B) == \A c \in DOMAIN A.fused_scores : A.fused_scores[c] = B.fused_scores[c]

NoScoreTie(A) ==
    \A c, d \in DOMAIN A.fused_scores : c /= d => A.fused_scores[c] /= A.fused_scores[d]

\* every occurrence of cid with its highest raw score is the same instance
OneBest(cid) ==
    \A i, j \in OccurrencesOf(cid) :
        (\A m \in OccurrencesOf(cid) :
             /\ Occurrences[m].res.score <= Occurrences[i].res.score
             /\ Occurrences[m].res.score <= Occurrences[j].res.score)
        => Occurrences[i].res = Occurrences[j].res

\* C25 as amended: whatever the order of the lists, the same chunk ids are
\* fused, the instance kept for a chunk id has the same raw score, and a
\* chunk id that occurs at most twice has the same fused score; the
\* returned ids are the same sequence when every fused score is the same in
\* both orders and no two chunk ids tie on it, and the same instances when
\* no chunk id has two instances with its highest raw score.
C25_OrderIndependentWithoutTies ==
    pc = "merged" =>
        \A f \in Perms(Len(results_by_query)) :
            LET lists == Permuted(results_by_query, f)
                A == RrfFused(results_by_query, rrf_k)
                B == RrfFused(lists, rrf_k)
                out == rrf_merge(lists, rrf_k, top_k)
            IN  /\ DOMAIN A.fused_scores = DOMAIN B.fused_scores
                /\ \A c \in DOMAIN A.fused_scores :
                      /\ A.best[c].score = B.best[c].score
                      /\ OneBest(c) => A.best[c] = B.best[c]
                      /\ Cardinality(OccurrencesOf(c)) <= 2 =>
                            A.fused_scores[c] = B.fused_scores[c]
                /\ (SameScores(A, B) /\ NoScoreTie(A)) =>
                      /\ Ids(out) = Ids(used_chunks)
                      /\ (\A c \in DOMAIN A.fused_scores : OneBest(c)) => out = used_chunks

C25_Witness ==
    /\ pc = "merged"
    /\ top_k = 8
    /\ results_by_query = << <<Chunk(1, 90, "b"), Chunk(2, 80, "a")>>,
                             <<Chunk(1, 95, "d"), Chunk(1, 95, "e")>>,
                             <<Chunk(2, 80, "b"), Chunk(1, 80, "c")>> >>
    /\ Ids(used_chunks) = <<1, 2>>
    /\ \E f \in Perms(3) :
          /\ f[1] = 3
          /\ Ids(rrf_merge(Permuted(results_by_query, f), rrf_k, top_k)) = <<1, 2>>

CallsOf(op) == {i \in CallIdx : calls[i].op = op}

\* C26: nothing is retried: the classification call and the expansion call
\* are issued at most once, the variants are searched once each in the
\* order of the expansion set, and no retrieval call follows one that
\* raised.
C26_NoRetry ==
    /\ Cardinality(CallsOf("classify")) <= 1
    /\ Cardinality(CallsOf("expand")) <= 1
    /\ \A i \in SearchCalls : ~calls[i].ok => \A j \in SearchCalls : j <= i
    /\ expansions /= <<>> =>
          /\ Len(Searched) <= Len(expansions)
          /\ \A i \in 1..Len(Searched) : Searched[i] = expansions[i]
    /\ expansions = <<>> => Len(Searched) <= 1

C26_Witness ==
    /\ pc = "done"
    /\ Len(expansions) = 3
    /\ Len(results_by_query) = 1
    /\ Cardinality(SearchCalls) = 2
    /\ Searched = <<expansions[1], expansions[2]>>
    /\ ~calls[Len(calls)].ok
    /\ Cardinality(CallsOf("classify")) = 1
    /\ Cardinality(CallsOf("expand")) = 1

Branches == {"full_context", "retrieve_all", "retrieve_selected", "general", "clarify"}

OpsOnly(ops) == \A i \in CallIdx : calls[i].op \in ops

\* C27: every run classifies first, then enters exactly one branch, then is
\* done: the classification call is the first call and comes before every
\* document load, expansion, retrieval and answer call; the calls of a run
\* are those of one branch, and a run that ended has entered one; a run
\* that returned has its answer either from one answer call or from the
\* unavailable-service message, never from both.
C27_ClassifyBranchDone ==
    /\ calls /= <<>> => (calls[1].op = "classify" /\ CallsOf("classify") = {1})
    /\ path /= "" => (path \in Branches /\ Classified)
    /\ path = "" => OpsOnly({"classify"})
    /\ path = "full_context" => OpsOnly({"classify", "load_docs", "answer_full"})
    /\ path = "retrieve_selected" =>
          OpsOnly({"classify", "load_docs", "expand", "search", "answer_chunks"})
    /\ path = "retrieve_all" => OpsOnly({"classify", "expand", "search", "answer_chunks"})
    /\ path = "general" => OpsOnly({"classify", "answer_general"})
    /\ path = "clarify" => OpsOnly({"classify", "clarify"})
    /\ Cardinality(AnswerCalls) <= 1
    /\ answer = "unavailable" => (pc = "done" /\ AnswerCalls = {})
    /\ pc \in {"done", "raised"} => path \in Branches
    /\ pc = "done" =>
          /\ answer \in {"llm", "unavailable"}
          /\ answer = "llm" =>
                /\ Cardinality(AnswerCalls) = 1
                /\ calls[Len(calls)].op \in AnswerOps
                /\ calls[Len(calls)].ok

\* C28: when the decision is scenario 2 and the caller selected no
\* documents (the model's scenario 2 adopted at confidence >= 0.6, the rule
\* guess never being 2 then), run takes the clarification path: no document
\* load, no expansion, no retrieval, no used chunks; the scenario it
\* returns and puts in debug is still 2.
C28_ScenarioTwoWithoutIds ==
    (Classified /\ decision.scenario = 2 /\ selected_ids = <<>>) =>
        /\ decision.confidence >= 60
        /\ rule_guess /= 2
        /\ path = "clarify"
        /\ OpsOnly({"classify", "clarify"})
        /\ used_chunks = <<>>
        /\ scenario = 2

C28_Witness ==
    /\ pc = "done"
    /\ decision.scenario = 2
    /\ selected_ids = <<>>
    /\ scenario = 2
    /\ answer = "llm"
    /\ calls[Len(calls)].op = "clarify"

TaskIdx == 1..Len(tasks)

KeyOf(i) == CacheKey(tasks[i].mode, tasks[i].payload)

\* the API call of call i failed and the call has returned
FailedFetch(i) == tasks[i].pc = "returned" /\ tasks[i].raised

\* call j began after call i stored and returned (one step, no await in
\* between), with the same mode and payload, and made its cache check before
\* the entry call i stored expires
LaterBeforeExpiry(i, j) ==
    /\ j /= i
    /\ tasks[i].wrote > 0
    /\ tasks[j].seen_writes >= tasks[i].wrote
    /\ KeyOf(j) = KeyOf(i)
    /\ tasks[j].checked_at < tasks[i].expires_at

\* no call stored under the key of call i between the store of call i and
\* the cache check of call j
StillCached(i, j) ==
    \A w \in (tasks[i].wrote + 1)..tasks[j].seen_writes : writes[w] /= KeyOf(i)

\* call j returned the stub of call i, with its error, from the cache and
\* without an API call
ServedStubOf(i, j) ==
    /\ tasks[j].pc = "returned"
    /\ tasks[j].cached
    /\ ~tasks[j].api
    /\ tasks[j].data = tasks[i].data
    /\ tasks[j].data.source = "stub"
    /\ tasks[j].data.error \in ApiErrors(tasks[i].mode)

\* with a ttl of 0 nothing is stored, no call is served from the cache, and
\* every call of a client that has a base URL calls the API
NothingStored ==
    cache_ttl = 0 =>
        /\ cache = EmptyCache
        /\ writes = <<>>
        /\ \A j \in TaskIdx : ~tasks[j].cached /\ (base_url => tasks[j].api)

\* C30: with cache_ttl > 0, after a fetch whose API call failed, every later
\* fetch with the same mode and payload before the entry expires returns
\* that same stub, error included, marked cached, without an API call; with
\* cache_ttl = 0 nothing is ever stored and every fetch calls the API again.
C30_FailureCached ==
    /\ cache_ttl > 0 =>
          \A i \in TaskIdx : \A j \in TaskIdx :
             (FailedFetch(i) /\ LaterBeforeExpiry(i, j)) => ServedStubOf(i, j)
    /\ NothingStored

\* C30, as the code has it: with cache_ttl > 0 a fetch whose API call failed
\* stores its stub, and every later fetch with the same mode and payload
\* whose cache check comes before that entry expires and before any other
\* call has stored under the key returns that same stub, error included,
\* marked cached, without an API call; with cache_ttl = 0 nothing is ever
\* stored and every fetch of a client with a base URL calls the API.
C30_FailureCachedUntilOverwritten ==
    /\ cache_ttl > 0 =>
          \A i \in TaskIdx :
             FailedFetch(i) =>
                /\ tasks[i].wrote > 0
                /\ tasks[i].expires_at > 0
                /\ ~tasks[i].cached
                /\ \A j \in TaskIdx :
                      (LaterBeforeExpiry(i, j) /\ StillCached(i, j))
                          => ServedStubOf(i, j)
    /\ NothingStored

C30_Witness ==
    /\ cache_ttl > 0
    /\ \E i \in TaskIdx : \E j \in TaskIdx :
          /\ FailedFetch(i)
          /\ LaterBeforeExpiry(i, j)
          /\ StillCached(i, j)
          /\ ServedStubOf(i, j)
          /\ tasks[j].data.error = "timeout"
          /\ tasks[j].checked_at > tasks[i].checked_at

=============================================================================
